---- MODULE Spec2Model ----
(***************************************************************************)
(* Model of arrow/filesystem/azurefs.cc: the AzurePath address parser, the *)
(* ObjectInputFile random-access handle over one blob, and the            *)
(* AzureFileSystem::Impl::OpenInputFile facade that builds and             *)
(* initialises a handle.                                                   *)
(*                                                                         *)
(* Spec is the handle and its one caller; SpecPath is AzurePath on its own *)
(* over every short string; SpecEquals is AzureOptions::Equals and         *)
(* AzureFileSystem::Equals; SpecShared is two callers whose Reads on one   *)
(* handle interleave.                                                      *)
(*                                                                         *)
(* Strings are sequences of one-character strings.  The blob store (the    *)
(* Azure SDK BlobClient) is external: every call to it takes its outcome   *)
(* from a set of possible outcomes.                                        *)
(***************************************************************************)
EXTENDS Integers, Sequences, FiniteSets, TLC

\* ------------------------------------------------------------------ bounds

\* Largest blob size / FileInfo size of the small range of sizes.
MaxLen == 2

\* FileInfo's "size unknown" sentinel, the default of content_length_.
kNoSize == -1

\* internal::kSep
kSep == "/"

\* Path strings handed to the facade: the empty string, a bare container,
\* file paths, a trailing and a leading separator, a URI, a reserved and an
\* empty path component.
OpenPaths ==
    {<<>>, <<"a">>, <<"a", kSep, "b">>, <<"a", kSep, "b", kSep, "c">>,
     <<"a", kSep, "b", kSep>>, <<kSep, "a">>, <<"a", "b", ":", "c">>,
     <<"a", kSep, ".">>, <<"a", kSep, kSep, "b">>}

\* Blob and FileInfo sizes.
Sizes == 0..MaxLen

\* int64 arguments of Seek / ReadAt / Read.
Positions == -1..(MaxLen + 1)

NBytes == -1..(MaxLen + 1)

Min(a, b) == IF a < b THEN a ELSE b

\* Longest string handed to AzurePath::FromString on its own.
MaxStr == 5

\* The characters of those strings: a letter, the separator, and the two
\* characters a reserved component and a URI scheme need.
Alphabet == {"a", ".", ":", kSep}

Strings == UNION {[1..n -> Alphabet] : n \in 0..MaxStr}

\* ----------------------------------------------------------------- Status

Status(code, msg, path) == [code |-> code, msg |-> msg, path |-> path]

StatusOK == Status("OK", "", <<>>)

Invalid(msg) == Status("Invalid", msg, <<>>)

IOError(msg) == Status("IOError", msg, <<>>)

ok(st) == st.code = "OK"

\* --------------------------------------------------- path_util.h helpers

Letters == {"a", "b", "c"}

\* internal::IsLikelyUri: a scheme of at least two characters (a letter,
\* then letters, digits, '+', '-', '.') followed by ':'.
IsLikelyUri(s) ==
    /\ s # <<>>
    /\ s[1] # kSep
    /\ \E i \in 3..Len(s) :
          /\ s[i] = ":"
          /\ \A j \in 1..(i - 1) : s[j] # ":"
          /\ s[1] \in Letters
          /\ \A j \in 2..(i - 1) : s[j] \in Letters \cup {"."}

RECURSIVE RemoveTrailingSlash(_)
RemoveTrailingSlash(s) ==
    IF s # <<>> /\ s[Len(s)] = kSep
    THEN RemoveTrailingSlash(SubSeq(s, 1, Len(s) - 1))
    ELSE s

HasTrailingSlash(s) == s # <<>> /\ s[Len(s)] = kSep

\* std::string::npos, and find_first_of(kSep) as a 0-based index.
npos == -1

find_first_of(src) ==
    IF \E i \in 1..Len(src) : src[i] = kSep
    THEN (CHOOSE i \in 1..Len(src) :
             src[i] = kSep /\ \A j \in 1..(i - 1) : src[j] # kSep) - 1
    ELSE npos

\* std::string::substr(pos) and substr(0, n), 0-based.
substr_from(src, pos) == SubSeq(src, pos + 1, Len(src))

substr_to(src, n) == SubSeq(src, 1, n)

\* internal::SplitAbstractPath: the parts between separators; no part for
\* the empty string.
RECURSIVE SplitAbstractPath(_)
SplitAbstractPath(p) ==
    IF p = <<>> THEN <<>>
    ELSE LET i == find_first_of(p)
         IN  IF i = npos THEN <<p>>
             ELSE IF i = Len(p) - 1 THEN <<substr_to(p, i), <<>>>>
             ELSE <<substr_to(p, i)>> \o SplitAbstractPath(substr_from(p, i + 1))

\* internal::JoinAbstractPath: the parts with a separator between them.
RECURSIVE JoinAbstractPath(_)
JoinAbstractPath(parts) ==
    IF parts = <<>> THEN <<>>
    ELSE IF Len(parts) = 1 THEN parts[1]
    ELSE parts[1] \o <<kSep>> \o JoinAbstractPath(Tail(parts))

\* internal::ValidateAbstractPathParts: no empty part, no "." or "..".
ValidateAbstractPathParts(parts) ==
    IF \E i \in 1..Len(parts) : parts[i] = <<>>
    THEN Invalid("Empty path component")
    ELSE IF \E i \in 1..Len(parts) : parts[i] \in {<<".">>, <<".", ".">>}
    THEN Invalid("Reserved path component")
    ELSE StatusOK

\* internal::AssertNoTrailingSlash
AssertNoTrailingSlash(s) ==
    IF HasTrailingSlash(s) THEN Status("NotAFile", "Not a regular file", s)
    ELSE StatusOK

\* --------------------------------------------------------------- AzurePath

AzurePath(full_path, container, path_to_file, parts) ==
    [full_path |-> full_path, container |-> container,
     path_to_file |-> path_to_file, path_to_file_parts |-> parts]

NoPath == AzurePath(<<>>, <<>>, <<>>, <<>>)

\* AzurePath::Validate
Validate(path) ==
    LET status == ValidateAbstractPathParts(path.path_to_file_parts)
    IN  IF ~ok(status) THEN Status("Invalid", status.msg, path.full_path)
        ELSE status

\* FromString that parses s as it is, trailing separators included.
FromString_NoStrip(s) ==
    IF IsLikelyUri(s)
    THEN [status |-> Status("Invalid", "got a URI", s), path |-> NoPath]
    ELSE LET src == s
             first_sep == find_first_of(src)
         IN  IF first_sep = 0
             THEN [status |-> Status("Invalid", "Path cannot start with a separator", s),
                   path |-> NoPath]
             ELSE IF first_sep = npos
             THEN [status |-> StatusOK, path |-> AzurePath(src, src, <<>>, <<>>)]
             ELSE LET ptf == substr_from(src, first_sep + 1)
                      path == AzurePath(src, substr_to(src, first_sep), ptf,
                                        SplitAbstractPath(ptf))
                  IN  IF ~ok(Validate(path))
                      THEN [status |-> Validate(path), path |-> NoPath]
                      ELSE [status |-> StatusOK, path |-> path]

\* AzurePath::FromString: [status, path]
FromString(s) ==
    IF IsLikelyUri(s)
    THEN [status |-> Status("Invalid", "got a URI", s), path |-> NoPath]
    ELSE LET src == RemoveTrailingSlash(s)
             first_sep == find_first_of(src)
         IN  IF first_sep = 0
             THEN [status |-> Status("Invalid", "Path cannot start with a separator", s),
                   path |-> NoPath]
             ELSE IF first_sep = npos
             THEN [status |-> StatusOK, path |-> AzurePath(src, src, <<>>, <<>>)]
             ELSE LET ptf == substr_from(src, first_sep + 1)
                      path == AzurePath(src, substr_to(src, first_sep), ptf,
                                        SplitAbstractPath(ptf))
                  IN  IF ~ok(Validate(path))
                      THEN [status |-> Validate(path), path |-> NoPath]
                      ELSE [status |-> StatusOK, path |-> path]

\* AzurePath::has_parent
has_parent(path) == path.path_to_file # <<>>

\* AzurePath::parent that keeps the full_path of the address it starts from.
parent_FullPathKept(path) ==
    LET parts == SubSeq(path.path_to_file_parts, 1, Len(path.path_to_file_parts) - 1)
    IN  AzurePath(path.full_path, path.container, JoinAbstractPath(parts), parts)

\* AzurePath::parent (on an address that has a parent: DCHECK(has_parent())).
parent(path) ==
    LET parts == SubSeq(path.path_to_file_parts, 1, Len(path.path_to_file_parts) - 1)
        path_to_file == JoinAbstractPath(parts)
    IN  IF path_to_file = <<>>
        THEN AzurePath(path.container, path.container, path_to_file, parts)
        ELSE AzurePath(path.container \o <<kSep>> \o path_to_file, path.container,
                       path_to_file, parts)

\* AzurePath::empty
empty(path) == path.container = <<>> /\ path.path_to_file = <<>>

\* AzurePath::operator==
operator_eq(a, b) == a.container = b.container /\ a.path_to_file = b.path_to_file

PathNotFound(path) == Status("PathNotFound", "Path does not exist", path.full_path)

NotAFile(path) == Status("NotAFile", "Not a regular file", path.full_path)

\* ValidateFilePath with its two checks in the other order.
ValidateFilePath_FileCheckFirst(path) ==
    IF path.path_to_file = <<>> THEN NotAFile(path)
    ELSE IF path.container = <<>> THEN PathNotFound(path)
    ELSE StatusOK

\* ValidateFilePath
ValidateFilePath(path) ==
    IF path.container = <<>> THEN PathNotFound(path)
    ELSE IF path.path_to_file = <<>> THEN NotAFile(path)
    ELSE StatusOK

\* ErrorToStatus
ErrorToStatus(prefix, exception) == IOError(prefix)


\* ------------------------------------------------------------ AzureOptions

AzureBackend == {"Azure", "Azurite"}

AzureCredentialsKind == {"Anonymous", "StorageCredentials"}

\* A default-constructed AzureOptions: empty URLs, no credential.
AzureOptions(backend) ==
    [account_dfs_url |-> <<>>, account_blob_url |-> <<>>,
     credentials_kind |-> "Anonymous", storage_credentials_provider |-> <<>>,
     backend |-> backend]

StorageSharedKeyCredential(account_name, account_key) ==
    [account_name |-> account_name, account_key |-> account_key]

\* AzureOptions::Equals that compares the credential too.
AzureOptions_Equals_Deep(this, other) ==
    /\ this.account_dfs_url = other.account_dfs_url
    /\ this.account_blob_url = other.account_blob_url
    /\ this.credentials_kind = other.credentials_kind
    /\ this.storage_credentials_provider = other.storage_credentials_provider

\* AzureOptions::Equals
AzureOptions_Equals(this, other) ==
    /\ this.account_dfs_url = other.account_dfs_url
    /\ this.account_blob_url = other.account_blob_url
    /\ this.credentials_kind = other.credentials_kind

\* AzureOptions::ConfigureAccountKeyCredentials: the options after it.
ConfigureAccountKeyCredentials(this, account_name, account_key) ==
    [this EXCEPT
       !.account_blob_url =
          IF this.backend = "Azurite"
          THEN <<"http://127.0.0.1:10000/", account_name, "/">>
          ELSE <<"https://", account_name, ".blob.core.windows.net/">>,
       !.account_dfs_url =
          IF this.backend = "Azurite"
          THEN <<"http://127.0.0.1:10000/", account_name, "/">>
          ELSE <<"https://", account_name, ".dfs.core.windows.net/">>,
       !.storage_credentials_provider =
          <<StorageSharedKeyCredential(account_name, account_key)>>,
       !.credentials_kind = "StorageCredentials"]

\* The FileSystem an AzureFileSystem is compared with: itself, another
\* AzureFileSystem, or a filesystem of another type.
OtherFileSystems == {"this", "abfs", "local"}

type_name(other) == IF other = "local" THEN "local" ELSE "abfs"

\* AzureFileSystem::Equals of a filesystem holding the options this_options
\* with other, which holds other_options when it is an AzureFileSystem.
AzureFileSystem_Equals(this_options, other, other_options) ==
    IF other = "this" THEN TRUE
    ELSE IF type_name(other) # type_name("this") THEN FALSE
    ELSE AzureOptions_Equals(this_options, other_options)

\* ------------------------------------------------------------ the store

\* KeyValueMetadata: a sequence of (key, value) pairs.
MetadataValues == {<< <<"k", "v">> >>}

\* Outcomes of BlobClient::GetProperties: the properties, or a
\* StorageException with status NotFound or with another status.
PropertiesOutcomes ==
    {[kind |-> "ok", BlobSize |-> z, Metadata |-> m] : z \in Sizes, m \in MetadataValues}
    \cup {[kind |-> k, BlobSize |-> 0, Metadata |-> <<>>] : k \in {"NotFound", "Error"}}

\* ContentRange.Length the store reports for a fetch of nbytes bytes: up to
\* nbytes for a well-formed range; the SDK gives no contract for a range of
\* negative length, so any reported length is possible there (a negative,
\* a zero and a positive one are taken).
Delivered(nbytes) == IF nbytes > 0 THEN 0..nbytes ELSE {nbytes, 0, 1}

\* Outcomes of BlobClient::DownloadTo with Range {position, nbytes}.
DownloadOutcomes(nbytes) ==
    {[kind |-> "ok", Length |-> d] : d \in Delivered(nbytes)}
    \cup {[kind |-> k, Length |-> 0] : k \in {"NotFound", "Error"}}

\* ------------------------------------------------------- ObjectInputFile

VARIABLES
    blob_client_,     \* <<>> (nullptr) or <<client>>
    path_,            \* AzurePath
    closed_,
    pos_,
    content_length_,
    metadata_,        \* <<>> (nullptr) or <<KeyValueMetadata>>
    returned,         \* the caller holds the ObjectInputFile
    prop_fetches,     \* GetProperties calls made for this ObjectInputFile
    seeked,           \* a Seek succeeded since the handle was returned
    reads_sum,        \* bytes returned by the Reads so far, while no Seek succeeded
    last,             \* the last call: arguments, result, store calls, state before
    addr,             \* an AzurePath computation: the string, FromString's
                      \* result, the address parent() has led to, a re-parse
    eq,               \* two AzureOptions and the result of the last Equals
    thr,              \* callers sharing the handle: where each is in its
                      \* Read, and the ranges delivered so far
    loop              \* a caller reading to the end of the file: its phase,
                      \* the cursor it started at, the bytes returned so far

vars == <<blob_client_, path_, closed_, pos_, content_length_, metadata_,
          returned, prop_fetches, seeked, reads_sum, last, addr, eq, thr, loop>>

\* The variables of the ObjectInputFile and of its caller.
hvars == <<blob_client_, path_, closed_, pos_, content_length_, metadata_,
           returned, prop_fetches, seeked, reads_sum, last>>

\* GetObjectMetadata: every pair appended in order.
RECURSIVE GetObjectMetadata(_)
GetObjectMetadata(result) ==
    IF result = <<>> THEN <<>>
    ELSE <<Head(result)>> \o GetObjectMetadata(Tail(result))

BlobClient(container, blob) == [container |-> container, blob |-> blob]

\* The fields of a newly constructed ObjectInputFile.
ObjectInputFile(blob_client, path, size) ==
    [blob_client_ |-> <<blob_client>>, path_ |-> path, closed_ |-> FALSE,
     pos_ |-> 0, content_length_ |-> size, metadata_ |-> <<>>]

\* Init that maps every StorageException through ErrorToStatus.
ObjectInputFile_Init_NoNotFound(f, so) ==
    IF f.content_length_ # kNoSize
    THEN [status |-> StatusOK, file |-> f, props |-> 0]
    ELSE IF so.kind = "ok"
    THEN [status |-> StatusOK,
          file |-> [f EXCEPT !.content_length_ = so.BlobSize,
                             !.metadata_ = <<GetObjectMetadata(so.Metadata)>>],
          props |-> 1]
    ELSE [status |-> ErrorToStatus("When fetching properties", so),
          file |-> f, props |-> 1]

\* Init that fetches the properties although the size was supplied.
ObjectInputFile_Init_AlwaysFetch(f, so) ==
    IF so.kind = "ok"
    THEN [status |-> StatusOK,
          file |-> [f EXCEPT !.content_length_ = so.BlobSize,
                             !.metadata_ = <<GetObjectMetadata(so.Metadata)>>],
          props |-> 1]
    ELSE IF so.kind = "NotFound"
    THEN [status |-> PathNotFound(f.path_), file |-> f, props |-> 1]
    ELSE [status |-> ErrorToStatus("When fetching properties", so),
          file |-> f, props |-> 1]

\* ObjectInputFile::Init on the object f: the status, the object after it,
\* and the property fetches made.
ObjectInputFile_Init(f, so) ==
    IF f.content_length_ # kNoSize
    THEN [status |-> StatusOK, file |-> f, props |-> 0]
    ELSE IF so.kind = "ok"
    THEN [status |-> StatusOK,
          file |-> [f EXCEPT !.content_length_ = so.BlobSize,
                             !.metadata_ = <<GetObjectMetadata(so.Metadata)>>],
          props |-> 1]
    ELSE IF so.kind = "NotFound"
    THEN [status |-> PathNotFound(f.path_), file |-> f, props |-> 1]
    ELSE [status |-> ErrorToStatus("When fetching properties", so),
          file |-> f, props |-> 1]

\* CheckClosed that never reports the closed file.
CheckClosed_Skipped(action) == StatusOK

CheckClosed(action) ==
    IF closed_ THEN Invalid("on closed file") ELSE StatusOK

\* CheckPosition that refuses the end-of-file position (>= for >).
CheckPosition_EndRefused(position, action) ==
    IF position < 0 THEN Invalid("from negative position")
    ELSE IF position >= content_length_ THEN IOError("past end of file")
    ELSE StatusOK

CheckPosition(position, action) ==
    IF position < 0 THEN Invalid("from negative position")
    ELSE IF position > content_length_ THEN IOError("past end of file")
    ELSE StatusOK

\* The result of a handle call: status, value, cursor after the call, the
\* ranges fetched from the store.
Result(status, value, pos, fetches) ==
    [status |-> status, value |-> value, pos |-> pos, fetches |-> fetches]

HttpRange(offset, length) == [Offset |-> offset, Length |-> length]

Tell == IF ~ok(CheckClosed("tell")) THEN Result(CheckClosed("tell"), 0, pos_, <<>>)
        ELSE Result(StatusOK, pos_, pos_, <<>>)

GetSize ==
    IF ~ok(CheckClosed("size")) THEN Result(CheckClosed("size"), 0, pos_, <<>>)
    ELSE Result(StatusOK, content_length_, pos_, <<>>)

\* Seek that takes any position.
Seek_Unchecked(position) ==
    IF ~ok(CheckClosed("seek")) THEN Result(CheckClosed("seek"), 0, pos_, <<>>)
    ELSE Result(StatusOK, 0, position, <<>>)

Seek(position) ==
    IF ~ok(CheckClosed("seek")) THEN Result(CheckClosed("seek"), 0, pos_, <<>>)
    ELSE IF ~ok(CheckPosition(position, "seek"))
    THEN Result(CheckPosition(position, "seek"), 0, pos_, <<>>)
    ELSE Result(StatusOK, 0, position, <<>>)

\* ReadAt that leaves the cursor after the bytes it delivered.
ReadAt_MovesCursor(position, nbytes, so) ==
    IF ~ok(CheckClosed("read")) THEN Result(CheckClosed("read"), 0, pos_, <<>>)
    ELSE IF ~ok(CheckPosition(position, "read"))
    THEN Result(CheckPosition(position, "read"), 0, pos_, <<>>)
    ELSE LET n == Min(nbytes, content_length_ - position)
         IN  IF n = 0 THEN Result(StatusOK, 0, pos_, <<>>)
             ELSE IF so.kind = "ok"
             THEN Result(StatusOK, so.Length, position + so.Length,
                         <<HttpRange(position, n)>>)
             ELSE Result(ErrorToStatus("When reading from", so), 0, pos_,
                         <<HttpRange(position, n)>>)

\* ReadAt that does not clamp nbytes to the bytes left.
ReadAt_Unclamped(position, nbytes, so) ==
    IF ~ok(CheckClosed("read")) THEN Result(CheckClosed("read"), 0, pos_, <<>>)
    ELSE IF ~ok(CheckPosition(position, "read"))
    THEN Result(CheckPosition(position, "read"), 0, pos_, <<>>)
    ELSE IF nbytes = 0 THEN Result(StatusOK, 0, pos_, <<>>)
    ELSE IF so.kind = "ok"
    THEN Result(StatusOK, so.Length, pos_, <<HttpRange(position, nbytes)>>)
    ELSE Result(ErrorToStatus("When reading from", so), 0, pos_,
                <<HttpRange(position, nbytes)>>)

\* ReadAt(int64_t position, int64_t nbytes, void* out)
ReadAt(position, nbytes, so) ==
    IF ~ok(CheckClosed("read")) THEN Result(CheckClosed("read"), 0, pos_, <<>>)
    ELSE IF ~ok(CheckPosition(position, "read"))
    THEN Result(CheckPosition(position, "read"), 0, pos_, <<>>)
    ELSE LET n == Min(nbytes, content_length_ - position)
         IN  IF n = 0 THEN Result(StatusOK, 0, pos_, <<>>)
             ELSE IF so.kind = "ok"
             THEN Result(StatusOK, so.Length, pos_, <<HttpRange(position, n)>>)
             ELSE Result(ErrorToStatus("When reading from", so), 0, pos_,
                         <<HttpRange(position, n)>>)

\* AllocateResizableBuffer: a negative size is refused.
AllocateResizableBuffer(size) ==
    IF size < 0 THEN Invalid("Negative buffer resize") ELSE StatusOK

\* ReadAt(int64_t position, int64_t nbytes): the value is the buffer's size.
ReadAtBuffer(position, nbytes, so) ==
    IF ~ok(CheckClosed("read")) THEN Result(CheckClosed("read"), 0, pos_, <<>>)
    ELSE IF ~ok(CheckPosition(position, "read"))
    THEN Result(CheckPosition(position, "read"), 0, pos_, <<>>)
    ELSE LET n == Min(nbytes, content_length_ - position)
         IN  IF ~ok(AllocateResizableBuffer(n))
             THEN Result(AllocateResizableBuffer(n), 0, pos_, <<>>)
             ELSE IF n > 0
             THEN LET r == ReadAt(position, n, so)
                  IN  IF ~ok(r.status) THEN r
                      ELSE Result(StatusOK, r.value, pos_, r.fetches)
             ELSE Result(StatusOK, n, pos_, <<>>)

\* Read that advances the cursor by the bytes asked for.
Read_AdvanceByRequested(nbytes, so) ==
    LET r == ReadAt(pos_, nbytes, so)
    IN  IF ~ok(r.status) THEN r
        ELSE Result(StatusOK, r.value, pos_ + nbytes, r.fetches)

\* Read(int64_t nbytes, void* out)
Read(nbytes, so) ==
    LET r == ReadAt(pos_, nbytes, so)
    IN  IF ~ok(r.status) THEN r
        ELSE Result(StatusOK, r.value, pos_ + r.value, r.fetches)

\* Read(int64_t nbytes)
ReadBuffer(nbytes, so) ==
    LET r == ReadAtBuffer(pos_, nbytes, so)
    IN  IF ~ok(r.status) THEN r
        ELSE Result(StatusOK, r.value, pos_ + r.value, r.fetches)


\* ReadMetadata / ReadMetadataAsync: the cached pointer, no check, no call.
ReadMetadata == metadata_

ReadMetadataAsync == metadata_

\* Close that keeps the client.
Close_KeepsClient ==
    [blob_client_ |-> blob_client_, closed_ |-> TRUE, status |-> StatusOK]

\* Close that refuses a handle that is closed already.
Close_RefusesClosed ==
    [blob_client_ |-> <<>>, closed_ |-> TRUE,
     status |-> IF closed_ THEN Invalid("on closed file") ELSE StatusOK]

\* Close: the fields it assigns and its status.
Close == [blob_client_ |-> <<>>, closed_ |-> TRUE, status |-> StatusOK]

\* ------------------------------------------------- AzureFileSystem::Impl

FileTypes == {"NotFound", "Unknown", "File", "Directory"}

\* FileInfo records; a size is kNoSize or a size >= 0 (Init's DCHECK_GE).
FileInfos == [path : OpenPaths, type : FileTypes, size : {kNoSize} \cup Sizes]

\* No ObjectInputFile: the fields at their defaults, no client.
NoFile ==
    [blob_client_ |-> <<>>, path_ |-> NoPath, closed_ |-> FALSE,
     pos_ |-> 0, content_length_ |-> kNoSize, metadata_ |-> <<>>]

\* The outcome of an open: status, the ObjectInputFile it constructed as
\* Init left it (NoFile when it constructed none), the property fetches made.
NotOpened(status) == [status |-> status, file |-> NoFile, props |-> 0]

\* An open that returns the object without calling Init.
Opened_NoInit(path, size, so) ==
    [status |-> StatusOK,
     file |-> ObjectInputFile(BlobClient(path.container, path.path_to_file), path, size),
     props |-> 0]

Opened(path, size, so) ==
    LET blob_client == BlobClient(path.container, path.path_to_file)
        ptr == ObjectInputFile(blob_client, path, size)
        init == ObjectInputFile_Init(ptr, so)
    IN  [status |-> init.status, file |-> init.file, props |-> init.props]

\* OpenInputFile that validates the file path only after Init has run.
OpenInputFile_ValidateLate(s, so) ==
    IF ~ok(AssertNoTrailingSlash(s)) THEN NotOpened(AssertNoTrailingSlash(s))
    ELSE IF ~ok(FromString(s).status) THEN NotOpened(FromString(s).status)
    ELSE LET o == Opened(FromString(s).path, kNoSize, so)
         IN  IF ~ok(o.status) THEN o
             ELSE IF ~ok(ValidateFilePath(FromString(s).path))
             THEN [o EXCEPT !.status = ValidateFilePath(FromString(s).path)]
             ELSE o

\* Impl::OpenInputFile(const std::string& s, AzureFileSystem* fs)
OpenInputFile(s, so) ==
    IF ~ok(AssertNoTrailingSlash(s)) THEN NotOpened(AssertNoTrailingSlash(s))
    ELSE IF ~ok(FromString(s).status) THEN NotOpened(FromString(s).status)
    ELSE IF ~ok(ValidateFilePath(FromString(s).path))
    THEN NotOpened(ValidateFilePath(FromString(s).path))
    ELSE Opened(FromString(s).path, kNoSize, so)

\* OpenInputFile(const FileInfo&) that drops the record's size.
OpenInputFileInfo_IgnoresSize(info, so) ==
    IF ~ok(AssertNoTrailingSlash(info.path))
    THEN NotOpened(AssertNoTrailingSlash(info.path))
    ELSE IF info.type = "NotFound"
    THEN NotOpened(Status("PathNotFound", "Path does not exist", info.path))
    ELSE IF info.type # "File" /\ info.type # "Unknown"
    THEN NotOpened(Status("NotAFile", "Not a regular file", info.path))
    ELSE IF ~ok(FromString(info.path).status)
    THEN NotOpened(FromString(info.path).status)
    ELSE IF ~ok(ValidateFilePath(FromString(info.path).path))
    THEN NotOpened(ValidateFilePath(FromString(info.path).path))
    ELSE Opened(FromString(info.path).path, kNoSize, so)

\* Impl::OpenInputFile(const FileInfo& info, AzureFileSystem* fs)
OpenInputFileInfo(info, so) ==
    IF ~ok(AssertNoTrailingSlash(info.path))
    THEN NotOpened(AssertNoTrailingSlash(info.path))
    ELSE IF info.type = "NotFound"
    THEN NotOpened(Status("PathNotFound", "Path does not exist", info.path))
    ELSE IF info.type # "File" /\ info.type # "Unknown"
    THEN NotOpened(Status("NotAFile", "Not a regular file", info.path))
    ELSE IF ~ok(FromString(info.path).status)
    THEN NotOpened(FromString(info.path).status)
    ELSE IF ~ok(ValidateFilePath(FromString(info.path).path))
    THEN NotOpened(ValidateFilePath(FromString(info.path).path))
    ELSE Opened(FromString(info.path).path, info.size, so)

\* ------------------------------------------------------------- behaviour

\* The state a call starts in.
Pre ==
    [closed_ |-> closed_, pos_ |-> pos_, content_length_ |-> content_length_,
     metadata_ |-> metadata_, blob_client_ |-> blob_client_]

NoArgs == [position |-> 0, nbytes |-> 0, s |-> <<>>, type |-> "", size |-> 0]

NoStore == [kind |-> "none", Length |-> 0]

\* The record of a call: store is the outcome of the store call it made
\* (its kind and, for a fetch, the length it reported), NoStore when it made
\* none.
Call(op, args, status, value, md, fetches, props, store) ==
    [op |-> op, args |-> args, status |-> status, value |-> value, md |-> md,
     fetches |-> fetches, props |-> props, store |-> store, pre |-> Pre]

\* No AzurePath computation.
NoParse == [status |-> StatusOK, path |-> NoPath]

Unparsed(s) ==
    [s |-> s, parsed |-> FALSE, res |-> NoParse, cur |-> NoPath, depth |-> 0,
     check |-> <<>>]

\* No AzureOptions compared.
NoEquals ==
    [a |-> AzureOptions("Azure"), b |-> AzureOptions("Azure"), out |-> <<>>]

\* The callers of the concurrent use, none of them inside a call.
Callers == {1, 2}

NoCallers ==
    [pc |-> [c \in Callers |-> "idle"], bytes_read |-> [c \in Callers |-> 0],
     loaded |-> [c \in Callers |-> 0], log |-> <<>>, overlapped |-> FALSE]

\* No caller reading to the end of the file.
NoLoop == [phase |-> "none", start |-> 0, sum |-> 0]

\* No ObjectInputFile constructed, no call made.
NoHandle ==
    /\ blob_client_ = NoFile.blob_client_
    /\ path_ = NoFile.path_
    /\ closed_ = NoFile.closed_
    /\ pos_ = NoFile.pos_
    /\ content_length_ = NoFile.content_length_
    /\ metadata_ = NoFile.metadata_
    /\ returned = FALSE
    /\ prop_fetches = 0
    /\ seeked = FALSE
    /\ reads_sum = 0
    /\ last = Call("none", NoArgs, StatusOK, 0, <<>>, <<>>, 0, NoStore)

Init ==
    /\ NoHandle
    /\ addr = Unparsed(<<>>)
    /\ eq = NoEquals
    /\ thr = NoCallers
    /\ loop = NoLoop

\* An open by the caller: the fields are those of the object it constructed
\* (kept for inspection when Init failed and the object is dropped), and the
\* caller holds the object when the status is OK.
Open(op, args, o, so) ==
    /\ ~returned
    /\ last' = Call(op, args, o.status, 0, <<>>, <<>>, o.props,
                    IF o.props > 0 THEN [kind |-> so.kind, Length |-> 0] ELSE NoStore)
    /\ blob_client_' = o.file.blob_client_
    /\ path_' = o.file.path_
    /\ closed_' = o.file.closed_
    /\ pos_' = o.file.pos_
    /\ content_length_' = o.file.content_length_
    /\ metadata_' = o.file.metadata_
    /\ prop_fetches' = o.props
    /\ returned' = ok(o.status)
    /\ UNCHANGED <<seeked, reads_sum, addr, eq, thr, loop>>

\* The outcomes the store can give to the property fetch of an open; one
\* (unused) outcome when the open makes no fetch.
InitOutcomes(o) ==
    IF o.props > 0 THEN PropertiesOutcomes
    ELSE {[kind |-> "none", BlobSize |-> 0, Metadata |-> <<>>]}

CallOpenInputFile ==
    /\ ~returned
    /\ \E s \in OpenPaths :
      \E so \in InitOutcomes(OpenInputFile(s, CHOOSE x \in PropertiesOutcomes : TRUE)) :
        Open("OpenInputFile", [NoArgs EXCEPT !.s = s, !.size = kNoSize],
             OpenInputFile(s, so), so)

CallOpenInputFileInfo ==
    /\ ~returned
    /\ \E info \in FileInfos :
      \E so \in InitOutcomes(OpenInputFileInfo(info, CHOOSE x \in PropertiesOutcomes : TRUE)) :
        Open("OpenInputFileInfo",
             [NoArgs EXCEPT !.s = info.path, !.type = info.type, !.size = info.size],
             OpenInputFileInfo(info, so), so)

\* A call on the handle the caller holds.
OnHandle(op, args, r, md, so) ==
    /\ returned
    /\ last' = Call(op, args, r.status, r.value, md, r.fetches, 0,
                    IF r.fetches # <<>> THEN so ELSE NoStore)
    /\ pos_' = r.pos
    /\ UNCHANGED <<blob_client_, path_, closed_, content_length_, metadata_,
                   returned, prop_fetches, addr, eq, thr, loop>>

CallTell ==
    /\ OnHandle("Tell", NoArgs, Tell, <<>>, NoStore)
    /\ UNCHANGED <<seeked, reads_sum>>

CallGetSize ==
    /\ OnHandle("GetSize", NoArgs, GetSize, <<>>, NoStore)
    /\ UNCHANGED <<seeked, reads_sum>>

CallReadMetadata ==
    /\ OnHandle("ReadMetadata", NoArgs, Result(StatusOK, 0, pos_, <<>>),
                ReadMetadata, NoStore)
    /\ UNCHANGED <<seeked, reads_sum>>

CallReadMetadataAsync ==
    /\ OnHandle("ReadMetadataAsync", NoArgs, Result(StatusOK, 0, pos_, <<>>),
                ReadMetadataAsync, NoStore)
    /\ UNCHANGED <<seeked, reads_sum>>

CallSeek ==
    /\ returned
    /\ \E position \in Positions :
        /\ OnHandle("Seek", [NoArgs EXCEPT !.position = position], Seek(position),
                    <<>>, NoStore)
        /\ seeked' = (seeked \/ ok(Seek(position).status))
        /\ reads_sum' = IF seeked' THEN 0 ELSE reads_sum

\* The outcomes the store can give to the ranges a read fetches (fetches is
\* what the read requests, whatever the outcome); one (unused) outcome when
\* it fetches nothing.
FetchOutcomes(fetches) ==
    IF fetches = <<>> THEN {NoStore} ELSE DownloadOutcomes(fetches[1].Length)

CallReadAt ==
    /\ returned
    /\ \E position \in Positions, nbytes \in NBytes :
        \E so \in FetchOutcomes(ReadAt(position, nbytes, NoStore).fetches) :
            /\ OnHandle("ReadAt", [NoArgs EXCEPT !.position = position, !.nbytes = nbytes],
                        ReadAt(position, nbytes, so), <<>>, so)
            /\ UNCHANGED <<seeked, reads_sum>>

CallReadAtBuffer ==
    /\ returned
    /\ \E position \in Positions, nbytes \in NBytes :
        \E so \in FetchOutcomes(ReadAtBuffer(position, nbytes, NoStore).fetches) :
            /\ OnHandle("ReadAtBuffer",
                        [NoArgs EXCEPT !.position = position, !.nbytes = nbytes],
                        ReadAtBuffer(position, nbytes, so), <<>>, so)
            /\ UNCHANGED <<seeked, reads_sum>>

CallRead ==
    /\ returned
    /\ \E nbytes \in NBytes :
        \E so \in FetchOutcomes(Read(nbytes, NoStore).fetches) :
          LET r == Read(nbytes, so)
          IN  /\ OnHandle("Read", [NoArgs EXCEPT !.nbytes = nbytes], r, <<>>, so)
              /\ reads_sum' = IF seeked THEN 0 ELSE reads_sum + r.value
              /\ UNCHANGED seeked

CallReadBuffer ==
    /\ returned
    /\ \E nbytes \in NBytes :
        \E so \in FetchOutcomes(ReadBuffer(nbytes, NoStore).fetches) :
          LET r == ReadBuffer(nbytes, so)
          IN  /\ OnHandle("ReadBuffer", [NoArgs EXCEPT !.nbytes = nbytes], r, <<>>, so)
              /\ reads_sum' = IF seeked THEN 0 ELSE reads_sum + r.value
              /\ UNCHANGED seeked

CallClose ==
    /\ returned
    /\ last' = Call("Close", NoArgs, Close.status, 0, <<>>, <<>>, 0, NoStore)
    /\ blob_client_' = Close.blob_client_
    /\ closed_' = Close.closed_
    /\ UNCHANGED <<path_, pos_, content_length_, metadata_, returned,
                   prop_fetches, seeked, reads_sum, addr, eq, thr, loop>>

Next ==
    \/ CallOpenInputFile
    \/ CallOpenInputFileInfo
    \/ CallTell
    \/ CallGetSize
    \/ CallReadMetadata
    \/ CallReadMetadataAsync
    \/ CallSeek
    \/ CallReadAt
    \/ CallReadAtBuffer
    \/ CallRead
    \/ CallReadBuffer
    \/ CallClose

Spec == Init /\ [][Next]_vars

\* ---------------------------------------------------- AzurePath on its own

\* s followed by k separators.
RECURSIVE WithTrailing(_, _)
WithTrailing(s, k) == IF k = 0 THEN s ELSE WithTrailing(s \o <<kSep>>, k - 1)

InitPath ==
    /\ NoHandle
    /\ addr \in {Unparsed(s) : s \in Strings}
    /\ eq = NoEquals
    /\ thr = NoCallers
    /\ loop = NoLoop

\* AzurePath::FromString(s)
CallFromString ==
    /\ ~addr.parsed
    /\ addr' = [addr EXCEPT !.parsed = TRUE,
                            !.res = FromString(addr.s),
                            !.cur = FromString(addr.s).path]
    /\ UNCHANGED <<hvars, eq, thr, loop>>

\* parent() on the address reached so far.
CallParent ==
    /\ addr.parsed
    /\ ok(addr.res.status)
    /\ has_parent(addr.cur)
    /\ addr' = [addr EXCEPT !.cur = parent(addr.cur),
                            !.depth = addr.depth + 1,
                            !.check = <<>>]
    /\ UNCHANGED <<hvars, eq, thr, loop>>

\* FromString on the full_path of the address reached so far.
CallFromStringOfFullPath ==
    /\ addr.parsed
    /\ ok(addr.res.status)
    /\ addr' = [addr EXCEPT !.check =
                   <<[kind |-> "full_path", k |-> 0,
                      res |-> FromString(addr.cur.full_path)]>>]
    /\ UNCHANGED <<hvars, eq, thr, loop>>

\* FromString on the string with one or two separators appended.
CallFromStringWithTrailing ==
    /\ addr.parsed
    /\ addr.depth = 0
    /\ \E k \in {1, 2} :
          addr' = [addr EXCEPT !.check =
                     <<[kind |-> "trailing", k |-> k,
                        res |-> FromString(WithTrailing(addr.s, k))]>>]
    /\ UNCHANGED <<hvars, eq, thr, loop>>

NextPath ==
    \/ CallFromString
    \/ CallParent
    \/ CallFromStringOfFullPath
    \/ CallFromStringWithTrailing

SpecPath == InitPath /\ [][NextPath]_vars

\* ------------------------------------------------- AzureOptions on its own

AccountNames == {"x", "y"}

AccountKeys == {"k1", "k2"}

\* The AzureOptions the comparisons start from: the fields are public, so
\* any URLs, kind and credential can have been assigned.
SomeOptions ==
    [account_dfs_url : {<<>>, <<"https://", "x", ".dfs.core.windows.net/">>},
     account_blob_url : {<<>>, <<"https://", "x", ".blob.core.windows.net/">>},
     credentials_kind : AzureCredentialsKind,
     storage_credentials_provider :
        {<<>>} \cup {<<StorageSharedKeyCredential("x", k)>> : k \in AccountKeys},
     backend : AzureBackend]

InitEquals ==
    /\ NoHandle
    /\ addr = Unparsed(<<>>)
    /\ eq \in [a : SomeOptions, b : SomeOptions, out : {<<>>}]
    /\ thr = NoCallers
    /\ loop = NoLoop

Compared(op, other, value) == <<[op |-> op, other |-> other, value |-> value]>>

CallConfigureAccountKeyCredentials ==
    /\ eq.out = <<>>
    /\ \E account_name \in AccountNames, account_key \in AccountKeys :
          \/ eq' = [eq EXCEPT !.a = ConfigureAccountKeyCredentials(
                                        eq.a, account_name, account_key)]
          \/ eq' = [eq EXCEPT !.b = ConfigureAccountKeyCredentials(
                                        eq.b, account_name, account_key)]
    /\ UNCHANGED <<hvars, addr, thr, loop>>

\* a.Equals(b)
CallOptionsEquals ==
    /\ eq' = [eq EXCEPT !.out =
                Compared("Equals", "abfs", AzureOptions_Equals(eq.a, eq.b))]
    /\ UNCHANGED <<hvars, addr, thr, loop>>

\* a.Equals(a)
CallOptionsEqualsSelf ==
    /\ eq' = [eq EXCEPT !.out =
                Compared("EqualsSelf", "this", AzureOptions_Equals(eq.a, eq.a))]
    /\ UNCHANGED <<hvars, addr, thr, loop>>

\* AzureFileSystem::Equals on a filesystem made with the options a; other
\* is that filesystem, one made with the options b, or of another type.
CallFileSystemEquals ==
    /\ \E other \in OtherFileSystems :
          eq' = [eq EXCEPT !.out =
                   Compared("FileSystemEquals", other,
                            AzureFileSystem_Equals(eq.a, other, eq.b))]
    /\ UNCHANGED <<hvars, addr, thr, loop>>

NextEquals ==
    \/ CallConfigureAccountKeyCredentials
    \/ CallOptionsEquals
    \/ CallOptionsEqualsSelf
    \/ CallFileSystemEquals

SpecEquals == InitEquals /\ [][NextEquals]_vars


\* ------------------------------------- two callers sharing one handle

\* The handle OpenInputFile(FileInfo) returns for the file "a/b" of a known
\* size, shared by the callers.
InitShared ==
    /\ \E size \in 1..MaxLen :
          LET o == OpenInputFileInfo(
                      [path |-> <<"a", kSep, "b">>, type |-> "File", size |-> size],
                      NoStore)
          IN  /\ blob_client_ = o.file.blob_client_
              /\ path_ = o.file.path_
              /\ closed_ = o.file.closed_
              /\ pos_ = o.file.pos_
              /\ content_length_ = o.file.content_length_
              /\ metadata_ = o.file.metadata_
              /\ returned = ok(o.status)
              /\ prop_fetches = o.props
    /\ seeked = FALSE
    /\ reads_sum = 0
    /\ last = Call("none", NoArgs, StatusOK, 0, <<>>, <<>>, 0, NoStore)
    /\ addr = Unparsed(<<>>)
    /\ eq = NoEquals
    /\ thr = NoCallers
    /\ loop = NoLoop

\* Read, first statement: ReadAt(pos_, nbytes, out) with the cursor as it is
\* now; bytes_read is what Read will add to the cursor.  A Read that fails
\* returns here.  The range and the bytes delivered are logged.
ReadFetch(c) ==
    /\ returned
    /\ thr.pc[c] = "idle"
    /\ Len(thr.log) <= MaxLen
    /\ \E nbytes \in 1..(MaxLen + 1) :
        \E so \in FetchOutcomes(Read(nbytes, NoStore).fetches) :
          LET r == Read(nbytes, so)
              busy == \E d \in Callers : d # c /\ thr.pc[d] # "idle"
          IN  thr' = [thr EXCEPT
                        !.pc[c] = IF ok(r.status) THEN "fetched" ELSE "idle",
                        !.bytes_read[c] = r.pos - pos_,
                        !.log = Append(@, [caller |-> c, offset |-> pos_,
                                           length |-> r.value]),
                        !.overlapped = @ \/ busy]
    /\ UNCHANGED <<hvars, addr, eq, loop>>

\* Read, pos_ += bytes_read: the load of pos_ ...
ReadLoad(c) ==
    /\ thr.pc[c] = "fetched"
    /\ thr' = [thr EXCEPT !.pc[c] = "loaded", !.loaded[c] = pos_]
    /\ UNCHANGED <<hvars, addr, eq, loop>>

\* ... and the store of the sum; Read returns.
ReadStore(c) ==
    /\ thr.pc[c] = "loaded"
    /\ pos_' = thr.loaded[c] + thr.bytes_read[c]
    /\ thr' = [thr EXCEPT !.pc[c] = "idle"]
    /\ UNCHANGED <<blob_client_, path_, closed_, content_length_, metadata_,
                   returned, prop_fetches, seeked, reads_sum, last, addr, eq,
                   loop>>

NextShared ==
    \/ \E c \in Callers : ReadFetch(c)
    \/ \E c \in Callers : ReadLoad(c)
    \/ \E c \in Callers : ReadStore(c)

SpecShared == InitShared /\ [][NextShared]_vars

\* ------------------------------------------- reading to the end of file

\* A handle as OpenInputFile(FileInfo) returns it, of a size the record
\* gave or the store reported.
InitReadLoop ==
    /\ \E info \in FileInfos :
        \E so \in InitOutcomes(OpenInputFileInfo(info, CHOOSE x \in PropertiesOutcomes : TRUE)) :
          LET o == OpenInputFileInfo(info, so)
          IN  /\ ok(o.status)
              /\ blob_client_ = o.file.blob_client_
              /\ path_ = o.file.path_
              /\ closed_ = o.file.closed_
              /\ pos_ = o.file.pos_
              /\ content_length_ = o.file.content_length_
              /\ metadata_ = o.file.metadata_
              /\ returned = ok(o.status)
              /\ prop_fetches = o.props
    /\ seeked = FALSE
    /\ reads_sum = 0
    /\ last = Call("none", NoArgs, StatusOK, 0, <<>>, <<>>, 0, NoStore)
    /\ addr = Unparsed(<<>>)
    /\ eq = NoEquals
    /\ thr = NoCallers
    /\ loop = [phase |-> "opened", start |-> 0, sum |-> 0]

\* A store that does not fail and delivers at least one byte of the range
\* asked for; one (unused) outcome when nothing is fetched.
DeliveringOutcomes(fetches) ==
    IF fetches = <<>> THEN {NoStore}
    ELSE {[kind |-> "ok", Length |-> d] : d \in 1..fetches[1].Length}

\* The call of the loop: r is its result.
LoopCall(op, args, r, so) ==
    /\ last' = Call(op, args, r.status, r.value, <<>>, r.fetches, 0,
                    IF r.fetches # <<>> THEN so ELSE NoStore)
    /\ pos_' = r.pos
    /\ UNCHANGED <<blob_client_, path_, closed_, content_length_, metadata_,
                   returned, prop_fetches, seeked, reads_sum, addr, eq, thr>>

\* The caller's state after a Read of the loop: it stops at the first Read
\* that returns 0 bytes, and gives up on an error.
AfterRead(r) ==
    [loop EXCEPT !.phase = IF ~ok(r.status) THEN "failed"
                           ELSE IF r.value = 0 THEN "done" ELSE "reading",
                 !.sum = IF ok(r.status) THEN @ + r.value ELSE @]

\* The caller puts the cursor where it wants to start reading.
LoopSeek ==
    /\ loop.phase = "opened"
    /\ \E position \in Positions :
          /\ LoopCall("Seek", [NoArgs EXCEPT !.position = position],
                      Seek(position), NoStore)
          /\ loop' = [loop EXCEPT !.phase = "reading",
                                  !.start = Seek(position).pos]

\* Read(nbytes, out) with nbytes >= 1
LoopRead ==
    /\ loop.phase = "reading"
    /\ \E nbytes \in 1..(MaxLen + 1) :
        \E so \in DeliveringOutcomes(Read(nbytes, NoStore).fetches) :
          /\ LoopCall("Read", [NoArgs EXCEPT !.nbytes = nbytes], Read(nbytes, so), so)
          /\ loop' = AfterRead(Read(nbytes, so))

\* Read(nbytes) with nbytes >= 1
LoopReadBuffer ==
    /\ loop.phase = "reading"
    /\ \E nbytes \in 1..(MaxLen + 1) :
        \E so \in DeliveringOutcomes(ReadBuffer(nbytes, NoStore).fetches) :
          /\ LoopCall("ReadBuffer", [NoArgs EXCEPT !.nbytes = nbytes],
                      ReadBuffer(nbytes, so), so)
          /\ loop' = AfterRead(ReadBuffer(nbytes, so))

NextReadLoop ==
    \/ LoopSeek
    \/ LoopRead
    \/ LoopReadBuffer

\* The caller goes on calling until a Read has returned 0.
SpecReadLoop == InitReadLoop /\ [][NextReadLoop]_vars /\ WF_vars(NextReadLoop)

\* ---------------------------------------------------------------- claims

OpenOps == {"OpenInputFile", "OpenInputFileInfo"}

ReadAtOps == {"ReadAt", "ReadAtBuffer"}

ReadOps == {"Read", "ReadBuffer"}

CheckedOps == {"Seek", "Tell", "GetSize"} \cup ReadAtOps \cup ReadOps

\* C1: once Close has run the closed flag stays true, and every later Seek,
\* Tell, GetSize, ReadAt and Read (raw and buffer variants) fails with the
\* Invalid "on closed file" error, without a store call and without moving
\* the cursor.
C1_ClosedIsTerminal ==
    /\ last.op = "Close" => closed_
    /\ last.pre.closed_ => closed_
    /\ (last.op \in CheckedOps /\ last.pre.closed_) =>
          /\ last.status = Invalid("on closed file")
          /\ last.fetches = <<>>
          /\ pos_ = last.pre.pos_

C1_Witness ==
    /\ last.op = "ReadBuffer"
    /\ last.pre.closed_
    /\ closed_
    /\ last.status.code = "Invalid"

\* C2: on an open handle with content_length L, Seek and both ReadAt
\* variants refuse a position p < 0 with Invalid and p > L with IOError, and
\* accept every 0 <= p <= L; a successful Seek(p) leaves the cursor at p,
\* which is what Tell returns.
C2_PositionRule ==
    /\ (last.op \in {"Seek"} \cup ReadAtOps /\ ~last.pre.closed_) =>
          LET p == last.args.position
              L == last.pre.content_length_
          IN  /\ p < 0 => last.status = Invalid("from negative position")
              /\ p > L => last.status = IOError("past end of file")
              /\ (0 <= p /\ p <= L) =>
                    /\ last.status.msg \notin
                          {"from negative position", "past end of file"}
                    /\ last.op = "Seek" => (ok(last.status) /\ pos_ = p)
    /\ (last.op = "Seek" /\ ok(last.status)) => pos_ = last.args.position
    /\ (last.op = "Tell" /\ ok(last.status)) => last.value = pos_

C2_Witness ==
    /\ last.op = "Seek"
    /\ ok(last.status)
    /\ last.args.position = content_length_
    /\ content_length_ = MaxLen
    /\ pos_ = MaxLen


\* What ReadAt is claimed to do with the clamped count c at an accepted
\* position p of the call l: nothing for c = 0, else one fetch of [p, p + c)
\* inside the blob whose reported length it returns.
FetchesClamped(l, p, c) ==
    /\ l.fetches = <<HttpRange(p, c)>>
    /\ p + c <= l.pre.content_length_
    /\ l.store.kind = "ok" => (ok(l.status) /\ l.value = l.store.Length)
    /\ l.store.kind # "ok" => ~ok(l.status)

ReturnsZero(l) == ok(l.status) /\ l.value = 0 /\ l.fetches = <<>>

AcceptedReadAt(l) ==
    /\ l.op \in ReadAtOps
    /\ ~l.pre.closed_
    /\ 0 <= l.args.position
    /\ l.args.position <= l.pre.content_length_

\* C3, as claimed: ReadAt(p, n) at an accepted position clamps n to
\* c = min(n, L - p); for c = 0 it returns 0 bytes without a store call, and
\* otherwise (both variants) it issues exactly one fetch of [p, p + c) and
\* returns the delivered count.
C3_ClampingAsClaimed ==
    AcceptedReadAt(last) =>
        LET p == last.args.position
            c == Min(last.args.nbytes, last.pre.content_length_ - p)
        IN  IF c = 0 THEN ReturnsZero(last) ELSE FetchesClamped(last, p, c)

\* C3, amended: as claimed when c = 0, when c > 0, and for the raw variant
\* when c < 0; the buffer variant given a negative count issues no fetch.
C3_Clamping ==
    AcceptedReadAt(last) =>
        LET p == last.args.position
            c == Min(last.args.nbytes, last.pre.content_length_ - p)
        IN  IF c = 0 THEN ReturnsZero(last)
            ELSE IF c > 0 \/ last.op = "ReadAt" THEN FetchesClamped(last, p, c)
            ELSE last.fetches = <<>>

\* ReadAt(L - 1, n) with n > 1 on a blob of MaxLen bytes returns 1 byte.
C3_Witness ==
    /\ last.op = "ReadAtBuffer"
    /\ content_length_ = MaxLen
    /\ last.args.position = MaxLen - 1
    /\ last.args.nbytes = MaxLen + 1
    /\ last.fetches = <<HttpRange(MaxLen - 1, 1)>>
    /\ last.value = 1

\* C4: every Read (raw and buffer variant) fetches at the cursor and then
\* advances the cursor by the count delivered, not the count asked for; so
\* while no Seek has succeeded, the cursor is the sum of the counts the
\* Reads returned.
C4_SequentialReads ==
    /\ last.op \in ReadOps =>
          /\ last.fetches # <<>> => last.fetches[1].Offset = last.pre.pos_
          /\ ok(last.status) => pos_ = last.pre.pos_ + last.value
          /\ (ok(last.status) /\ last.fetches # <<>>) =>
                last.value = last.store.Length
          /\ ~ok(last.status) => pos_ = last.pre.pos_
    /\ (returned /\ ~seeked) => pos_ = reads_sum

\* A second Read after a short one: asked for 2, delivered 1, cursor 1 -> 2.
C4_Witness ==
    /\ last.op = "Read"
    /\ ~seeked
    /\ last.args.nbytes = 2
    /\ last.pre.pos_ = 1
    /\ last.value = 1
    /\ pos_ = 2
    /\ reads_sum = 2

\* C5: an open returns either an error and no handle, or a handle on which
\* Init has run: not closed, cursor 0, content_length known and >= 0 (one
\* property fetch made when no size was supplied); no returned handle ever
\* has the kNoSize content_length.
C5_OpenReturnsReady ==
    /\ last.op \in OpenOps => (returned <=> ok(last.status))
    /\ (last.op \in OpenOps /\ returned) =>
          /\ ~closed_
          /\ pos_ = 0
          /\ content_length_ >= 0
          /\ blob_client_ # <<>>
          /\ last.args.size = kNoSize => (last.props = 1 /\ last.store.kind = "ok")
    /\ returned => content_length_ # kNoSize
    /\ ~returned => ~closed_

C5_Witness ==
    /\ last.op = "OpenInputFile"
    /\ returned
    /\ content_length_ = MaxLen
    /\ last.props = 1

\* C6: Init makes no store call when a size was supplied and exactly one
\* property fetch otherwise; a handle sees at most one property fetch in its
\* life; no call on the handle changes content_length or metadata or fetches
\* properties; ReadMetadata and ReadMetadataAsync return the cached metadata
\* without a store call.
C6_OneTimeResolution ==
    /\ (last.op \in OpenOps /\ last.args.size # kNoSize) =>
          (last.props = 0 /\ last.store = NoStore)
    /\ (last.op \in OpenOps /\ last.args.size = kNoSize /\ returned) =>
          last.props = 1
    /\ prop_fetches <= 1
    /\ last.op \in OpenOps => prop_fetches = last.props
    /\ (last.op \notin OpenOps /\ last.op # "none") =>
          /\ content_length_ = last.pre.content_length_
          /\ metadata_ = last.pre.metadata_
          /\ last.props = 0
    /\ last.op \in {"ReadMetadata", "ReadMetadataAsync"} =>
          /\ last.md = metadata_
          /\ last.fetches = <<>>
          /\ last.store = NoStore
    /\ (returned /\ prop_fetches = 0) => metadata_ = <<>>

C6_Witness ==
    /\ last.op = "ReadMetadataAsync"
    /\ prop_fetches = 1
    /\ last.md # <<>>
    /\ closed_


\* C7: a ReadAt or Read whose range fetch the store answers with not-found
\* fails with Path-not-found carrying the full path of the handle's address.
C7_ReadNotFound ==
    (last.op \in ReadAtOps \cup ReadOps /\ last.store.kind = "NotFound") =>
        last.status = PathNotFound(path_)

\* C8: when the property fetch of an open fails, a not-found status gives
\* Path-not-found carrying the full path of the address and any other
\* failure gives an IOError; either way content_length stays kNoSize and the
\* caller gets no handle.
C8_InitErrorMapping ==
    (last.op \in OpenOps /\ last.props = 1 /\ last.store.kind # "ok") =>
        /\ last.store.kind = "NotFound" =>
              /\ last.status = PathNotFound(path_)
              /\ last.status.path = last.args.s
        /\ last.store.kind = "Error" => last.status.code = "IOError"
        /\ content_length_ = kNoSize
        /\ ~returned

C8_Witness ==
    /\ last.op = "OpenInputFileInfo"
    /\ last.store.kind = "NotFound"
    /\ last.status.code = "PathNotFound"
    /\ last.status.path = <<"a", kSep, "b", kSep, "c">>

\* The call l failed in a local validation: a closed handle, a bad position
\* or path (Invalid, the past-end IOError), a trailing separator, a bare
\* container or a FileInfo that is not a file (NotAFile), an empty container
\* or a NotFound FileInfo (PathNotFound).
LocalError(l) ==
    \/ l.status.code \in {"Invalid", "NotAFile"}
    \/ l.status = IOError("past end of file")
    \/ /\ l.status.code = "PathNotFound"
       /\ (l.status.path = <<>> \/ l.args.type = "NotFound")

\* C9: a call that fails in a local validation has made no store call: no
\* property fetch and no range fetch.
C9_LocalErrorsBeforeStore ==
    LocalError(last) =>
        /\ last.props = 0
        /\ last.fetches = <<>>
        /\ last.store = NoStore
        /\ last.op \in OpenOps => prop_fetches = 0

C9_Witness ==
    /\ last.op = "OpenInputFile"
    /\ last.args.s = <<"a">>
    /\ last.status.code = "NotAFile"
    /\ last.props = 0

\* C10: an open whose path parses validates the address as a file target:
\* an empty container gives Path-not-found, else an empty relative path gives
\* Not-a-file, else the address is accepted (the open goes on to Init).
C10_FileTargetValidation ==
    (/\ last.op \in OpenOps
     /\ ok(AssertNoTrailingSlash(last.args.s))
     /\ last.op = "OpenInputFileInfo" => last.args.type \in {"File", "Unknown"}
     /\ ok(FromString(last.args.s).status)) =>
        LET path == FromString(last.args.s).path
        IN  IF path.container = <<>>
            THEN last.status = Status("PathNotFound", "Path does not exist", path.full_path)
            ELSE IF path.path_to_file = <<>>
            THEN last.status = Status("NotAFile", "Not a regular file", path.full_path)
            ELSE /\ blob_client_ = <<BlobClient(path.container, path.path_to_file)>>
                 /\ returned \/ last.props = 1

\* The empty string: Path-not-found, although its relative path is empty too.
C10_Witness ==
    /\ last.op = "OpenInputFile"
    /\ last.args.s = <<>>
    /\ last.status.code = "PathNotFound"

\* C11 as stated: whatever the path of the record, the type NotFound gives a
\* not-found error and a type other than File and Unknown a not-a-file
\* error, both without store access; a record of another type that gets a
\* handle built has its size passed to it: no property fetch for a known
\* size, one for an unknown size.
C11_OpenFromFileInfoAsClaimed ==
    last.op = "OpenInputFileInfo" =>
        /\ last.args.type = "NotFound" =>
              /\ last.status.code = "PathNotFound"
              /\ last.props = 0 /\ last.store = NoStore
        /\ last.args.type \notin {"NotFound", "File", "Unknown"} =>
              /\ last.status.code = "NotAFile"
              /\ last.props = 0 /\ last.store = NoStore
        /\ (last.args.type \in {"File", "Unknown"} /\ blob_client_ # <<>>) =>
              IF last.args.size # kNoSize
              THEN last.props = 0 /\ content_length_ = last.args.size
              ELSE last.props = 1

\* C11: an open from a FileInfo record whose path ends in a separator fails
\* with Not-a-file whatever the type; for a path without a trailing
\* separator the type NotFound gives Path-not-found and a type other than
\* File and Unknown gives Not-a-file, all three without store access and
\* carrying the record's path; a File or Unknown record whose path parses
\* and validates as a file target passes its size to the handle: a known
\* size becomes content_length with no property fetch, an unknown size
\* leads to exactly one property fetch.
C11_OpenFromFileInfo ==
    last.op = "OpenInputFileInfo" =>
        LET s == last.args.s
            type == last.args.type
            local == last.props = 0 /\ last.store = NoStore /\ prop_fetches = 0
        IN  IF HasTrailingSlash(s)
            THEN last.status = Status("NotAFile", "Not a regular file", s) /\ local
            ELSE IF type = "NotFound"
            THEN last.status = Status("PathNotFound", "Path does not exist", s) /\ local
            ELSE IF type \notin {"File", "Unknown"}
            THEN last.status = Status("NotAFile", "Not a regular file", s) /\ local
            ELSE IF ok(FromString(s).status) /\ ok(ValidateFilePath(FromString(s).path))
            THEN IF last.args.size # kNoSize
                 THEN /\ last.props = 0 /\ prop_fetches = 0
                      /\ ok(last.status) /\ returned
                      /\ content_length_ = last.args.size
                 ELSE last.props = 1 /\ prop_fetches = 1
            ELSE ~ok(last.status) /\ local

\* A File record of known size: the handle has that size, nothing fetched.
C11_Witness ==
    /\ last.op = "OpenInputFileInfo"
    /\ last.args.type = "File"
    /\ last.args.size = MaxLen
    /\ returned
    /\ content_length_ = MaxLen
    /\ last.props = 0

\* C12: FromString of a string that begins with the separator, the strings
\* made only of separators included, fails with Invalid "Path cannot start
\* with a separator" and yields no address.
C12_LeadingSeparatorRejected ==
    (addr.parsed /\ addr.s # <<>> /\ addr.s[1] = kSep) =>
        /\ addr.res.status = Status("Invalid", "Path cannot start with a separator", addr.s)
        /\ addr.res.path = NoPath

\* The index of the first separator of a string that has one.
FirstSep(src) ==
    CHOOSE i \in 1..Len(src) : src[i] = kSep /\ \A j \in 1..(i - 1) : src[j] # kSep

\* The full_path of an address: the container alone, or the container, a
\* separator and the relative path.
Rebuilt(path) ==
    IF path.path_to_file_parts = <<>> THEN path.container
    ELSE path.container \o <<kSep>> \o path.path_to_file

C14_IdentityAndRoundTrip ==
    (addr.parsed /\ addr.check # <<>>) =>
        LET r == addr.check[1].res
        IN  IF addr.check[1].kind = "trailing"
            THEN /\ ok(r.status) <=> ok(addr.res.status)
                 /\ ok(r.status) =>
                       /\ operator_eq(r.path, addr.res.path)
                       /\ r.path = addr.res.path
            ELSE /\ ok(r.status)
                 /\ operator_eq(r.path, addr.cur)
                 /\ r.path = addr.cur

\* The parent of "a/a/a" parsed again from its full_path "a/a".
C14_Witness ==
    /\ addr.depth = 1
    /\ addr.check # <<>>
    /\ addr.check[1].kind = "full_path"
    /\ addr.cur.full_path = <<"a", kSep, "a">>
    /\ operator_eq(addr.check[1].res.path, addr.cur)

\* C15: Close on a handle that is closed already returns OK, makes no store
\* call and leaves closed (true), the released client, the cursor,
\* content_length and metadata as they were, however often it is repeated.
C15_CloseIdempotent ==
    (last.op = "Close" /\ last.pre.closed_) =>
        /\ last.status = StatusOK
        /\ last.fetches = <<>> /\ last.props = 0 /\ last.store = NoStore
        /\ closed_
        /\ blob_client_ = <<>> /\ last.pre.blob_client_ = <<>>
        /\ pos_ = last.pre.pos_
        /\ content_length_ = last.pre.content_length_
        /\ metadata_ = last.pre.metadata_

\* A second Close, with the cursor away from 0.
C15_Witness ==
    /\ last.op = "Close"
    /\ last.pre.closed_
    /\ last.status = StatusOK
    /\ pos_ = 1

\* The two options agree on the three fields Equals is said to depend on.
SameConfiguration(a, b) ==
    /\ a.account_dfs_url = b.account_dfs_url
    /\ a.account_blob_url = b.account_blob_url
    /\ a.credentials_kind = b.credentials_kind

\* C16: AzureOptions::Equals of an options object with itself is true; of
\* two options it is true exactly when both URLs and the credentials kind
\* agree, whatever the credentials and the backend; AzureFileSystem::Equals
\* is true for the same instance, false for a filesystem of another type,
\* and otherwise the equality of the two options.
C16_ShallowEquality ==
    eq.out # <<>> =>
        LET o == eq.out[1]
        IN  /\ o.op = "EqualsSelf" => o.value
            /\ o.op = "Equals" => (o.value <=> SameConfiguration(eq.a, eq.b))
            /\ o.op = "FileSystemEquals" =>
                  IF o.other = "this" THEN o.value
                  ELSE IF o.other = "local" THEN ~o.value
                  ELSE o.value <=> SameConfiguration(eq.a, eq.b)

\* Two options configured for the same account with different keys are
\* equal.
C16_Witness ==
    /\ eq.out # <<>>
    /\ eq.out[1].op = "Equals"
    /\ eq.out[1].value
    /\ eq.a.storage_credentials_provider = <<StorageSharedKeyCredential("y", "k1")>>
    /\ eq.b.storage_credentials_provider = <<StorageSharedKeyCredential("y", "k2")>>

\* The byte b was delivered to some caller.
Received(b) ==
    \E i \in 1..Len(thr.log) :
        thr.log[i].offset <= b /\ b < thr.log[i].offset + thr.log[i].length

\* C17: two callers share a handle without synchronisation, each Read being
\* a fetch at the cursor and a separate increment of the cursor.  As long
\* as no Read has started while another was under way, the delivered ranges
\* follow one another from 0 without gap or overlap and, between calls, end
\* at the cursor; the state in which two overlapping Reads were delivered
\* the same range and the cursor has passed a byte nobody received is the
\* one C17_Witness describes.
C17_SequentialOnlyWhenSynchronised ==
    ~thr.overlapped =>
        /\ \A i \in 1..Len(thr.log) :
              thr.log[i].offset =
                 IF i = 1 THEN 0 ELSE thr.log[i - 1].offset + thr.log[i - 1].length
        /\ (thr.log # <<>> /\ \A c \in Callers : thr.pc[c] = "idle") =>
              pos_ = thr.log[Len(thr.log)].offset + thr.log[Len(thr.log)].length

\* Both callers were delivered the byte range [0, 1), both Reads have
\* returned, and the cursor is past byte 1, which nobody received.
C17_Witness ==
    /\ thr.overlapped
    /\ \A c \in Callers : thr.pc[c] = "idle"
    /\ Len(thr.log) = 2
    /\ thr.log[1].caller # thr.log[2].caller
    /\ thr.log[1].offset = 0 /\ thr.log[2].offset = 0
    /\ thr.log[1].length = 1 /\ thr.log[2].length = 1
    /\ pos_ = 2
    /\ ~Received(1)

\* The store call of the call l, if it made one that succeeded, delivered
\* between 0 and the requested number of bytes (0 bytes when the requested
\* number is negative).
DeliveredAsRequested(l) ==
    (l.fetches # <<>> /\ l.store.kind = "ok") =>
        /\ 0 <= l.store.Length
        /\ l.store.Length <= l.fetches[1].Length \/ l.store.Length = 0

\* C18: the cursor of a handle the caller holds is 0 after the open, and a
\* call (Seek, Read, ReadAt, Tell, GetSize, ReadMetadata, Close, with any
\* arguments) that starts with 0 <= cursor <= content_length and whose
\* range fetch, if it succeeds, delivers between 0 and the requested number
\* of bytes, ends with 0 <= cursor <= content_length; so the bound holds in
\* every state reached with such a store.
C18_CursorBound ==
    returned =>
        /\ last.op \in OpenOps => pos_ = 0 /\ pos_ <= content_length_
        /\ (/\ last.op \notin OpenOps
            /\ 0 <= last.pre.pos_ /\ last.pre.pos_ <= last.pre.content_length_
            /\ DeliveredAsRequested(last)) =>
              (0 <= pos_ /\ pos_ <= content_length_)

\* A Read that follows an earlier move of the cursor and ends at the end of
\* the file.
C18_Witness ==
    /\ last.op = "Read"
    /\ last.pre.pos_ = 1
    /\ last.args.nbytes = MaxLen + 1
    /\ last.value = MaxLen - 1
    /\ pos_ = content_length_
    /\ content_length_ = MaxLen

\* C19: every range a ReadAt or Read fetches from the store has an offset
\* >= 0, a length >= 1 and ends at or before content_length, and a call
\* given a byte count that is not positive fetches nothing.
C19_FetchWellFormed ==
    (last.op \in ReadAtOps \cup ReadOps) =>
        /\ \A i \in 1..Len(last.fetches) :
              /\ last.fetches[i].Offset >= 0
              /\ last.fetches[i].Length >= 1
              /\ last.fetches[i].Offset + last.fetches[i].Length
                    <= last.pre.content_length_
        /\ last.args.nbytes <= 0 => last.fetches = <<>>

\* C20: a handle the caller holds has no client exactly when it is closed;
\* a call that fetches a range starts on a handle that is not closed and
\* has its client; the property fetch of an open is made on the object
\* just constructed, not closed and with its client.
C20_ClientHeldWhileOpen ==
    /\ returned => (blob_client_ = <<>> <=> closed_)
    /\ last.fetches # <<>> =>
          /\ ~last.pre.closed_
          /\ last.pre.blob_client_ # <<>>
    /\ (last.op \in OpenOps /\ last.props > 0) =>
          /\ ~closed_
          /\ blob_client_ # <<>>
    /\ (returned /\ last.pre.blob_client_ = <<>> /\ last.op \notin OpenOps) =>
          /\ last.fetches = <<>>
          /\ last.store = NoStore

\* A Read on the closed handle: the client is gone and no fetch is made.
C20_Witness ==
    /\ returned
    /\ closed_
    /\ blob_client_ = <<>>
    /\ last.op = "Read"
    /\ last.args.nbytes = 1
    /\ last.fetches = <<>>
    /\ last.status.code = "Invalid"

\* The calls on the handle.
HandleOps ==
    {"Tell", "GetSize", "ReadMetadata", "ReadMetadataAsync", "Seek", "Close"}
    \cup ReadAtOps \cup ReadOps

\* closed, content_length, metadata and the client are as before the call.
AllButCursorKept ==
    /\ closed_ = last.pre.closed_
    /\ content_length_ = last.pre.content_length_
    /\ metadata_ = last.pre.metadata_
    /\ blob_client_ = last.pre.blob_client_

\* C21: both ReadAt variants, Tell, GetSize, ReadMetadata and
\* ReadMetadataAsync leave the cursor where it was (and the other fields
\* too); Seek and both Read variants leave closed, content_length, metadata
\* and the client as they were; and a call on the handle that returns an
\* error (closed handle, bad position, failed allocation, store failure)
\* leaves cursor, content_length, metadata and closed as they were.
C21_FrameConditions ==
    /\ last.op \in ReadAtOps \cup {"Tell", "GetSize", "ReadMetadata",
                                     "ReadMetadataAsync"} =>
          /\ pos_ = last.pre.pos_
          /\ AllButCursorKept
    /\ last.op \in {"Seek"} \cup ReadOps => AllButCursorKept
    /\ (last.op \in HandleOps /\ ~ok(last.status)) =>
          /\ pos_ = last.pre.pos_
          /\ AllButCursorKept

\* A ReadAt at position 0 that delivered bytes while the cursor stays at 1.
C21_Witness ==
    /\ last.op = "ReadAt"
    /\ last.args.position = 0
    /\ last.value = MaxLen
    /\ last.pre.pos_ = 1
    /\ pos_ = 1

\* C22: a caller that repeats Read(n), n >= 1, against a store that does
\* not fail and delivers at least one byte of every range asked for,
\* eventually gets a Read that returns 0; whenever it has, the cursor is
\* content_length and the bytes returned add up to content_length minus
\* the cursor it started at.
C22_ReadToEndTerminates ==
    /\ <>(loop.phase = "done")
    /\ [](loop.phase = "done" =>
            /\ last.value = 0
            /\ pos_ = content_length_
            /\ loop.sum = content_length_ - loop.start)

\* Started at cursor 1 of a file of MaxLen bytes, the loop has ended.
C22_Witness ==
    /\ loop.phase = "done"
    /\ loop.start = 1
    /\ content_length_ = MaxLen
    /\ loop.sum = MaxLen - 1
    /\ pos_ = MaxLen

====
